---- MODULE Spec2Model ----
(***************************************************************************)
(* Model of the SQL import job engine (models/sql_import_job.py) together  *)
(* with the mapping descriptor it runs against.  One job record, one       *)
(* runner executing action_start step by step, and the other entry points  *)
(* (action_cancel, action_verify_data, a further action_start) invoked by  *)
(* other callers between the runner's steps.                               *)
(***************************************************************************)
EXTENDS Integers, Sequences, FiniteSets, TLC

(***************************************************************************)
(* Bounds of the model.                                                    *)
(***************************************************************************)
MaxRows == 3
MaxBatch == 2
MaxManualVerify == 1
MaxEntries == 2
MaxStarts == 2
MaxRecords == 2
MaxRetries == 1
MaxOpen == 2

(***************************************************************************)
(* Python values.  A value carries its type tag t, an integer payload i    *)
(* and a text payload s (a sequence of one-character strings).             *)
(*   none            None                                                  *)
(*   bool            i = 1 for True, 0 for False                           *)
(*   int             i                                                     *)
(*   float           i = the value in thousandths                          *)
(*   str             s                                                     *)
(*   date, datetime  s = the ISO text of the value                          *)
(***************************************************************************)
None == [t |-> "none", i |-> 0, s |-> <<>>]
PyBool(b) == [t |-> "bool", i |-> IF b THEN 1 ELSE 0, s |-> <<>>]
PyInt(n) == [t |-> "int", i |-> n, s |-> <<>>]
PyFloat(n) == [t |-> "float", i |-> n, s |-> <<>>]
PyStr(cs) == [t |-> "str", i |-> 0, s |-> cs]
PyDate(cs) == [t |-> "date", i |-> 0, s |-> cs]
PyDateTime(cs) == [t |-> "datetime", i |-> 0, s |-> cs]
False == PyBool(FALSE)

\* Python truthiness: bool(value)
Truthy(v) ==
    CASE v.t = "none" -> FALSE
      [] v.t \in {"bool", "int", "float"} -> v.i # 0
      [] v.t = "str" -> v.s # <<>>
      [] OTHER -> TRUE

\* value is None or value is False
IsNoneOrFalse(v) == v.t = "none" \/ (v.t = "bool" /\ v.i = 0)

\* Python ==, as far as the code uses it (value == '' and value != value):
\* numbers compare by value across bool, int and float, text by content.
PyEq(a, b) ==
    CASE a.t \in {"bool", "int", "float"} /\ b.t \in {"bool", "int", "float"} ->
           (IF a.t = "float" THEN a.i ELSE a.i * 1000)
             = (IF b.t = "float" THEN b.i ELSE b.i * 1000)
      [] OTHER -> a.t = b.t /\ a.s = b.s

Digits == <<"0", "1", "2", "3", "4", "5", "6", "7", "8", "9">>
IsDigit(c) == \E d \in 1..10 : Digits[d] = c
DigitVal(c) == (CHOOSE d \in 1..10 : Digits[d] = c) - 1

RECURSIVE NatChars(_)
NatChars(n) == IF n < 10 THEN <<Digits[n + 1]>>
               ELSE NatChars(n \div 10) \o <<Digits[(n % 10) + 1]>>

\* str(n) of an int
IntChars(n) == IF n < 0 THEN <<"-">> \o NatChars(0 - n) ELSE NatChars(n)

RECURSIVE LStrip(_)
LStrip(cs) == IF cs # <<>> /\ Head(cs) = " " THEN LStrip(Tail(cs)) ELSE cs

RECURSIVE RStrip(_)
RStrip(cs) == IF cs # <<>> /\ cs[Len(cs)] = " "
              THEN RStrip(SubSeq(cs, 1, Len(cs) - 1)) ELSE cs

\* str.strip()
Strip(cs) == RStrip(LStrip(cs))

RECURSIVE RStripZeros(_)
RStripZeros(cs) == IF cs # <<>> /\ cs[Len(cs)] = "0"
                   THEN RStripZeros(SubSeq(cs, 1, Len(cs) - 1)) ELSE cs

RECURSIVE DigitsVal(_)
DigitsVal(cs) == IF cs = <<>> THEN 0
                 ELSE DigitsVal(SubSeq(cs, 1, Len(cs) - 1)) * 10 + DigitVal(cs[Len(cs)])

AllDigits(cs) == cs # <<>> /\ \A k \in 1..Len(cs) : IsDigit(cs[k])

\* the sign a literal starts with, and the literal without it
Negative(b) == b # <<>> /\ Head(b) = "-"
Unsigned(b) == IF b # <<>> /\ Head(b) \in {"-", "+"} THEN Tail(b) ELSE b
Signed(neg, mag) == IF neg THEN 0 - mag ELSE mag

\* int(text): surrounding blanks and one sign are accepted, then digits only
IntLiteralOf(b) ==
    IF AllDigits(Unsigned(b))
    THEN [ok |-> TRUE, n |-> Signed(Negative(b), DigitsVal(Unsigned(b)))]
    ELSE [ok |-> FALSE, n |-> 0]

IntLiteral(cs) == IntLiteralOf(Strip(cs))

\* the three fraction digits of a value in thousandths
Frac3(n) == <<Digits[((n \div 100) % 10) + 1], Digits[((n \div 10) % 10) + 1],
              Digits[(n % 10) + 1]>>

\* digits '.' digits, one side possibly empty; at most three fraction digits
\* are representable in thousandths
PointLiteral(neg, ip, fp) ==
    IF /\ ip # <<>> \/ fp # <<>>
       /\ ip = <<>> \/ AllDigits(ip)
       /\ fp = <<>> \/ AllDigits(fp)
       /\ Len(fp) <= 3
    THEN [ok |-> TRUE,
          n |-> Signed(neg, DigitsVal(ip) * 1000
                              + DigitsVal(SubSeq(fp \o <<"0", "0", "0">>, 1, 3)))]
    ELSE [ok |-> FALSE, n |-> 0]

Dots(body) == {k \in 1..Len(body) : body[k] = "."}

SplitLiteral(neg, body, k) ==
    PointLiteral(neg, SubSeq(body, 1, k - 1), SubSeq(body, k + 1, Len(body)))

Thousandths(r) == [ok |-> r.ok, n |-> r.n * 1000]

\* float(text): an int literal, or digits '.' digits
FloatLiteralOf(b) ==
    IF Dots(Unsigned(b)) = {} THEN Thousandths(IntLiteralOf(b))
    ELSE IF Cardinality(Dots(Unsigned(b))) = 1
         THEN SplitLiteral(Negative(b), Unsigned(b),
                           CHOOSE k \in Dots(Unsigned(b)) : TRUE)
         ELSE [ok |-> FALSE, n |-> 0]

FloatLiteral(cs) == FloatLiteralOf(Strip(cs))

\* the fraction digits of a magnitude in thousandths, trailing zeros dropped
FracChars(mag) == RStripZeros(Frac3(mag % 1000))

Magnitude(n) == IF n < 0 THEN 0 - n ELSE n
SignChars(n) == IF n < 0 THEN <<"-">> ELSE <<>>
NonEmptyOr(cs, alt) == IF cs = <<>> THEN alt ELSE cs
PointPrefixed(cs) == IF cs = <<>> THEN <<>> ELSE <<".">> \o cs

\* str(x) of a float given in thousandths: "19.5", "5.0", "-0.25"
FloatChars(n) ==
    SignChars(n) \o NatChars(Magnitude(n) \div 1000) \o <<".">>
      \o NonEmptyOr(FracChars(Magnitude(n)), <<"0">>)

\* f"{x:.6f}".rstrip('0').rstrip('.') of a float given in thousandths
FixedStripped(n) ==
    SignChars(n) \o NatChars(Magnitude(n) \div 1000)
      \o PointPrefixed(FracChars(Magnitude(n)))

\* str(value)
StrOf(v) ==
    CASE v.t = "none" -> <<"N", "o", "n", "e">>
      [] v.t = "bool" -> IF v.i = 1 THEN <<"T", "r", "u", "e">>
                         ELSE <<"F", "a", "l", "s", "e">>
      [] v.t = "int" -> IntChars(v.i)
      [] v.t = "float" -> FloatChars(v.i)
      [] v.t = "datetime" ->
           IF SubSeq(v.s, 20, 26) = <<".", "0", "0", "0", "0", "0", "0">>
           THEN SubSeq(v.s, 1, 19) ELSE v.s
      [] OTHER -> v.s

\* int(value): [ok, n]; not ok stands for ValueError / TypeError
IntOf(v) ==
    CASE v.t \in {"bool", "int"} -> [ok |-> TRUE, n |-> v.i]
      [] v.t = "float" -> [ok |-> TRUE, n |-> IF v.i < 0 THEN 0 - ((0 - v.i) \div 1000)
                                              ELSE v.i \div 1000]
      [] v.t = "str" -> IntLiteral(v.s)
      [] OTHER -> [ok |-> FALSE, n |-> 0]

\* float(value): [ok, n] with n in thousandths
FloatOf(v) ==
    CASE v.t \in {"bool", "int"} -> [ok |-> TRUE, n |-> v.i * 1000]
      [] v.t = "float" -> [ok |-> TRUE, n |-> v.i]
      [] v.t = "str" -> FloatLiteral(v.s)
      [] OTHER -> [ok |-> FALSE, n |-> 0]

(***************************************************************************)
(* The mapping descriptor (dat.sql.import.mapping) and the target model.   *)
(***************************************************************************)
\* a key that a mapping entry (a JSON object) does not carry
Absent == "<absent>"

FieldMapping(sf, tf, tr) == [source_field |-> sf, target_field |-> tf, transform |-> tr]

\* a mapping entry that is JSON but not an object (a number, a string)
Scalar == [scalar |-> "1"]
IsObject(fm) == "scalar" \notin DOMAIN fm

\* mapping.get('transform', 'direct')
TransformOf(fm) == IF fm.transform = Absent THEN "direct" ELSE fm.transform

\* columns of the source table and stored fields of the target model
SourceColumns == {"id", "qty"}
ModelFields == {"id", "legacy_id", "x_qty", "name", "create_date", "write_date",
                "create_uid", "write_uid", "display_name"}

\* the models of the registry, self.env
Models == {"res.partner"}

valid_transforms == {"direct", "bool", "int", "float", "str", "date", "datetime"}

\* field_mappings as text: no text (False or ''), text that is not JSON, or
\* the JSON list of entries
NoText == [text |-> "none", entries |-> <<>>]
BadJson == [text |-> "bad", entries |-> <<>>]
Json(es) == [text |-> "json", entries |-> es]

\* json.loads(mapping.field_mappings or '[]')
LoadMappings(fmtext) == fmtext.entries

\* SqlImportMapping.validate_mapping: the text of the UserError it raises,
\* or <<>> when it returns True
RECURSIVE ValidateEntries(_, _)
ValidateEntries(es, k) ==
    IF k > Len(es) THEN <<>>
    ELSE LET m == es[k] IN
         IF ~IsObject(m) THEN <<"Mapping is not a valid object">>
         ELSE IF m.source_field = Absent THEN <<"Missing source_field in mapping">>
         ELSE IF m.target_field = Absent THEN <<"Missing target_field in mapping">>
         ELSE IF m.target_field \notin ModelFields
              THEN <<"Target field does not exist in model", m.target_field>>
         ELSE IF TransformOf(m) \notin valid_transforms
              THEN <<"Invalid transform", TransformOf(m)>>
         ELSE ValidateEntries(es, k + 1)

\* a validation that looks at the text and the list but not at the entries
validate_text_only(m) ==
    IF m.field_mappings.text = "none" THEN <<"Field mappings are required">>
    ELSE IF m.field_mappings.text = "bad" THEN <<"Invalid JSON in field mappings">>
    ELSE IF m.field_mappings.entries = <<>> THEN <<"No field mappings configured">>
    ELSE <<>>

validate_mapping(m) ==
    IF m.field_mappings.text = "none" THEN <<"Field mappings are required">>
    ELSE IF m.field_mappings.text = "bad" THEN <<"Invalid JSON in field mappings">>
    ELSE IF m.field_mappings.entries = <<>> THEN <<"No field mappings configured">>
    ELSE IF m.target_model \notin Models
    THEN <<"Target model does not exist", m.target_model>>
    ELSE ValidateEntries(m.field_mappings.entries, 1)

(***************************************************************************)
(* Row Transformer: SqlImportJob._prepare_record_data                      *)
(***************************************************************************)
IsIsoDate(cs) ==
    /\ Len(cs) = 10
    /\ \A k \in {1, 2, 3, 4, 6, 7, 9, 10} : IsDigit(cs[k])
    /\ cs[5] = "-" /\ cs[8] = "-"

IsIsoDateTime(cs) ==
    /\ Len(cs) = 19
    /\ IsIsoDate(SubSeq(cs, 1, 10))
    /\ cs[11] = " " /\ cs[14] = ":" /\ cs[17] = ":"
    /\ \A k \in {12, 13, 15, 16, 18, 19} : IsDigit(cs[k])

Midnight == <<" ", "0", "0", ":", "0", "0", ":", "0", "0">>
ZeroMicros == <<".", "0", "0", "0", "0", "0", "0">>

\* dateutil.parser.parse(text): [ok, dt]; the ISO forms are parsed, text
\* without any digit is rejected (ParserError)
DateParse(cs) ==
    IF IsIsoDate(cs) THEN [ok |-> TRUE, dt |-> PyDateTime(cs \o Midnight \o ZeroMicros)]
    ELSE IF IsIsoDateTime(cs) THEN [ok |-> TRUE, dt |-> PyDateTime(cs \o ZeroMicros)]
    ELSE [ok |-> FALSE, dt |-> None]

\* datetime.date()
DateOf(v) == PyDate(SubSeq(v.s, 1, 10))

Ok(v) == [ok |-> TRUE, val |-> v]
Raises == [ok |-> FALSE, val |-> None]

\* the outcome of a conversion r = [ok, n] or [ok, dt] as the field's value
IntResult(r) == IF r.ok THEN Ok(PyInt(r.n)) ELSE Raises
FloatResult(r) == IF r.ok THEN Ok(PyFloat(r.n)) ELSE Raises
DateResult(r) == IF r.ok THEN Ok(DateOf(r.dt)) ELSE Raises
DateTimeResult(r) == IF r.ok THEN Ok(r.dt) ELSE Raises

\* the body of the try block of _prepare_record_data for one field
TransformValue(source_value, transform) ==
    CASE transform = "direct" -> Ok(source_value)
      [] transform = "bool" ->
           IF source_value.t = "none" THEN Ok(False)
           ELSE Ok(PyBool(Truthy(source_value)))
      [] transform = "int" ->
           IF source_value.t = "none" THEN Ok(False)
           ELSE IntResult(IntOf(source_value))
      [] transform = "float" ->
           IF source_value.t = "none" THEN Ok(False)
           ELSE FloatResult(FloatOf(source_value))
      [] transform = "str" ->
           IF source_value.t = "none" THEN Ok(False)
           ELSE IF PyEq(source_value, PyStr(<<>>)) THEN Ok(PyStr(<<>>))
           ELSE Ok(PyStr(Strip(StrOf(source_value))))
      [] transform = "date" ->
           IF Truthy(source_value)
           THEN IF source_value.t = "str" THEN DateResult(DateParse(source_value.s))
                ELSE IF source_value.t = "datetime" THEN Ok(DateOf(source_value))
                ELSE Ok(source_value)
           ELSE Ok(False)
      [] transform = "datetime" ->
           IF Truthy(source_value)
           THEN IF source_value.t = "str" THEN DateTimeResult(DateParse(source_value.s))
                ELSE Ok(source_value)
           ELSE Ok(False)
      [] OTHER -> Ok(source_value)

\* a record of the target model: its stored fields, False where never set
EmptyData == [f \in ModelFields |-> False]

\* _prepare_record_data(row, field_mappings): [ok, data, field], field being
\* the target field named by the UserError when not ok
RECURSIVE PrepareFrom(_, _, _, _)
\* lines 599-646 for the field target_field, r being the transform's outcome
PrepareField(row, field_mappings, k, data, target_field, r) ==
    IF r.ok
    THEN PrepareFrom(row, field_mappings, k + 1, [data EXCEPT ![target_field] = r.val])
    ELSE [ok |-> FALSE, data |-> EmptyData, field |-> target_field]

PrepareFrom(row, field_mappings, k, data) ==
    IF k > Len(field_mappings) THEN [ok |-> TRUE, data |-> data, field |-> ""]
    ELSE PrepareField(row, field_mappings, k, data, field_mappings[k].target_field,
                      TransformValue(row[k], TransformOf(field_mappings[k])))

prepare_record_data(row, field_mappings) == PrepareFrom(row, field_mappings, 1, EmptyData)

(***************************************************************************)
(* Normalisation of values for the verification pass                        *)
(***************************************************************************)
NULL == <<"N", "U", "L", "L">>

\* value.strftime(...) as used by both normalisers, for a date or datetime
StrfTime(value, transform) ==
    IF transform = "date" THEN SubSeq(value.s, 1, 10)
    ELSE IF value.t = "date" THEN value.s \o Midnight \o <<".", "0", "0", "0">>
    ELSE SubSeq(value.s, 1, 23)

\* str(int(value)), r being int(value)
NormalizeInt(r) == IF r.ok THEN IntChars(r.n) ELSE NULL

\* the float branch, r being float(value)
NormalizeFloat(r) ==
    IF r.ok
    THEN IF r.n % 1000 = 0
         THEN IntChars(Signed(r.n < 0, Magnitude(r.n) \div 1000))
         ELSE FixedStripped(r.n)
    ELSE NULL

NormalizeNumber(value, transform) ==
    IF transform = "int" THEN NormalizeInt(IntOf(value))
    ELSE NormalizeFloat(FloatOf(value))

\* SqlImportJob._normalize_value_for_comparison
normalize_value_for_comparison(value, transform) ==
    IF IsNoneOrFalse(value) THEN NULL
    ELSE CASE transform = "bool" -> IF Truthy(value) THEN <<"1">> ELSE <<"0">>
           [] transform \in {"int", "float"} -> NormalizeNumber(value, transform)
           [] transform \in {"date", "datetime"} ->
                IF value.t \in {"date", "datetime"} THEN StrfTime(value, transform)
                ELSE IF Truthy(value) THEN StrOf(value) ELSE NULL
           [] OTHER ->
                IF PyEq(value, PyStr(<<>>)) THEN <<>>
                ELSE IF Truthy(value) THEN Strip(StrOf(value)) ELSE NULL

\* SqlImportJob._normalize_target_value
normalize_target_value(value, transform) ==
    IF IsNoneOrFalse(value) THEN NULL
    ELSE CASE transform = "bool" -> IF Truthy(value) THEN <<"1">> ELSE <<"0">>
           [] transform \in {"int", "float"} -> NormalizeNumber(value, transform)
           [] transform \in {"date", "datetime"} ->
                IF Truthy(value)
                THEN IF value.t \in {"date", "datetime"} THEN StrfTime(value, transform)
                     ELSE StrOf(value)
                ELSE NULL
           [] OTHER ->
                IF ~PyEq(value, PyStr(<<>>)) THEN Strip(StrOf(value)) ELSE <<>>

(***************************************************************************)
(* The source store: a table of rows (column -> value) and the queries the *)
(* job sends to it.                                                        *)
(***************************************************************************)
NoFilter == ""
IdFilter == "id > 1"

\* WHERE {mapping.source_filter}
FilterHolds(source_filter, row) ==
    source_filter = NoFilter \/ (row.id.t = "int" /\ row.id.i > 1)

RECURSIVE Where(_, _)
Where(table, source_filter) ==
    IF table = <<>> THEN <<>>
    ELSE (IF FilterHolds(source_filter, Head(table)) THEN <<Head(table)>> ELSE <<>>)
           \o Where(Tail(table), source_filter)

\* a count of the distinct keys instead of the rows
count_distinct(table) == Cardinality({table[k].id : k \in 1..Len(table)})

\* SELECT COUNT(*) FROM [schema].[table]
count_query(table) == Len(table)

\* one result row of SELECT {', '.join(source_fields)}: positional, one
\* value per mapping
Project(row, field_mappings) ==
    [k \in 1..Len(field_mappings) |-> row[field_mappings[k].source_field]]

\* SELECT source_fields FROM [schema].[table] WHERE source_filter
select_query(table, field_mappings, source_filter) ==
    LET kept == Where(table, source_filter)
    IN  [k \in 1..Len(kept) |-> Project(kept[k], field_mappings)]

\* a fetch of everything that is left, whatever the size asked for
fetchall(result, pos, size) == SubSeq(result, pos + 1, Len(result))

\* cursor.fetchmany(size) on a result set already read up to pos
fetchmany(result, pos, size) ==
    SubSeq(result, pos + 1, IF pos + size > Len(result) THEN Len(result) ELSE pos + size)

(***************************************************************************)
(* Checksum verifier: SqlImportJob._verify_imported_data and its helpers   *)
(***************************************************************************)
\* a Python dict as the sequence of its items in insertion order
RECURSIVE DictIndex(_, _, _)
DictIndex(d, key, k) ==
    IF k > Len(d) THEN 0
    ELSE IF PyEq(d[k].key, key) THEN k ELSE DictIndex(d, key, k + 1)

DictHas(d, key) == DictIndex(d, key, 1) # 0
DictGet(d, key) == d[DictIndex(d, key, 1)].values
DictPut(d, key, values) ==
    IF DictHas(d, key) THEN [d EXCEPT ![DictIndex(d, key, 1)].values = values]
    ELSE Append(d, [key |-> key, values |-> values])

\* ORDER BY on a key column: NULL first, then by number; rows with equal
\* keys keep their order
OrderKey(v) == IF v.t = "none" THEN -1 ELSE v.i

RECURSIVE InsertByKey(_, _, _)
InsertByKey(sorted, row, col) ==
    IF sorted = <<>> THEN <<row>>
    ELSE IF OrderKey(row[col]) < OrderKey(Head(sorted)[col])
         THEN <<row>> \o sorted
         ELSE <<Head(sorted)>> \o InsertByKey(Tail(sorted), row, col)

RECURSIVE OrderBy(_, _)
OrderBy(table, col) ==
    IF table = <<>> THEN <<>>
    ELSE InsertByKey(OrderBy(SubSeq(table, 1, Len(table) - 1), col),
                     table[Len(table)], col)

\* record_values of one source row: one normalised value per mapping
SourceRecordValues(row, field_mappings) ==
    [k \in 1..Len(field_mappings) |->
        normalize_value_for_comparison(row[field_mappings[k].source_field],
                                       TransformOf(field_mappings[k]))]

RECURSIVE SourceDict(_, _, _)
SourceDict(table, field_mappings, data) ==
    IF table = <<>> THEN data
    ELSE SourceDict(Tail(table), field_mappings,
                    DictPut(data, Head(table)[field_mappings[1].source_field],
                            SourceRecordValues(Head(table), field_mappings)))

\* SqlImportJob._get_source_mapped_data: the dict of the rows the query
\* returns, keyed by their first mapped field
get_source_mapped_data(table, field_mappings, source_filter) ==
    SourceDict(OrderBy(Where(table, source_filter), field_mappings[1].source_field),
               field_mappings, <<>>)

SystemFields == {"create_uid", "write_uid", "create_date", "write_date", "display_name"}

TargetRecordValues(record, field_mappings) ==
    [k \in 1..Len(field_mappings) |->
        IF field_mappings[k].target_field \in SystemFields THEN NULL
        ELSE normalize_target_value(record[field_mappings[k].target_field],
                                    TransformOf(field_mappings[k]))]

RECURSIVE SearchLegacy(_)
SearchLegacy(records) ==
    IF records = <<>> THEN <<>>
    ELSE (IF "legacy_id" \in ModelFields /\ IsNoneOrFalse(Head(records).legacy_id)
          THEN <<>> ELSE <<Head(records)>>) \o SearchLegacy(Tail(records))

RECURSIVE TargetDict(_, _, _)
TargetDict(records, field_mappings, data) ==
    IF records = <<>> THEN data
    ELSE TargetDict(Tail(records), field_mappings,
                    DictPut(data,
                            IF "legacy_id" \in ModelFields THEN Head(records).legacy_id
                            ELSE Head(records).id,
                            TargetRecordValues(Head(records), field_mappings)))

\* SqlImportJob._get_target_mapped_data
get_target_mapped_data(records, field_mappings) ==
    TargetDict(OrderBy(SearchLegacy(records), "legacy_id"), field_mappings, <<>>)

Mismatch(kind, key, k, sv, tv) ==
    [kind |-> kind, key |-> key, field |-> k, source |-> sv, target |-> tv]

RECURSIVE FieldMismatches(_, _, _, _)
FieldMismatches(key, source_values, target_values, k) ==
    IF k > Len(source_values) \/ k > Len(target_values) THEN <<>>
    ELSE (IF source_values[k] # target_values[k]
          THEN <<Mismatch("Data mismatch for record", key, k,
                          source_values[k], target_values[k])>>
          ELSE <<>>)
         \o FieldMismatches(key, source_values, target_values, k + 1)

\* the loop over source_data.items()
RECURSIVE CompareSource(_, _, _)
CompareSource(source_data, target_data, k) ==
    IF k > Len(source_data) THEN <<>>
    ELSE (IF ~DictHas(target_data, source_data[k].key)
          THEN <<Mismatch("Missing record in target", source_data[k].key, 0, <<>>, <<>>)>>
          ELSE FieldMismatches(source_data[k].key, source_data[k].values,
                               DictGet(target_data, source_data[k].key), 1))
         \o CompareSource(source_data, target_data, k + 1)

\* the loop over target_data
RECURSIVE CompareTarget(_, _, _)
CompareTarget(source_data, target_data, k) ==
    IF k > Len(target_data) THEN <<>>
    ELSE (IF ~DictHas(source_data, target_data[k].key)
          THEN <<Mismatch("Extra record in target", target_data[k].key, 0, <<>>, <<>>)>>
          ELSE <<>>)
         \o CompareTarget(source_data, target_data, k + 1)

mismatches_of(source_data, target_data) ==
    CompareSource(source_data, target_data, 1) \o CompareTarget(source_data, target_data, 1)

(***************************************************************************)
(* State                                                                   *)
(***************************************************************************)
VARIABLES
    job,              \* the dat.sql.import.job record
    mapping,          \* the mapping descriptor the job references
    source,           \* the source table
    target,           \* the records of the target model, in creation order
    pc,               \* where the runner stands inside action_start
    field_mappings,   \* _run_import: the list loaded from the descriptor
    cursor,           \* _run_import: result set of select_query and read position
    rows,             \* _run_import: the rows of the batch in hand
    batch_data,       \* _run_import: the records prepared from rows
    processed_count,  \* _run_import: rows prepared so far
    batches,          \* every batch fetched so far and what became of it
    raised,           \* text of the exception action_start raised to its caller
    clock,            \* the time read by the last step
    manual_verifies,  \* completed action_verify_data calls
    validated,        \* the descriptor as _run_import validated it
    starts,           \* action_start calls past the state check, and past the reset
    committed,        \* the job and the target as of the last cr.commit()
    probe,            \* a value put to the two normalisers, and what they gave
    original,         \* the jobs action_retry was called on, oldest first
    connections       \* source connections opened and not closed

vars == <<job, mapping, source, target, pc, field_mappings, cursor, rows, batch_data,
          processed_count, batches, raised, clock, manual_verifies, validated,
          starts, committed, probe, original, connections>>

NoException == <<>>

\* the field defaults of a job created with a name and a mapping only
NewJob(verification_enabled) ==
    [state |-> "draft", start_date |-> 0, end_date |-> 0,
     total_records |-> 0, imported_records |-> 0, failed_records |-> 0,
     verification_enabled |-> verification_enabled,
     verification_status |-> "pending", checksum_mismatches |-> 0,
     verification_details |-> <<>>,
     log_entries |-> <<>>, error_message |-> NoException]

\* a log that holds its latest line only
LogLatest(j, now, level, text, a, b, detail) ==
    [j EXCEPT !.log_entries =
        <<[ts |-> now, level |-> level, text |-> text, a |-> a, b |-> b,
           detail |-> detail]>>]

\* SqlImportJob._log: one timestamped line appended to the log
Log(j, now, level, text, a, b, detail) ==
    [j EXCEPT !.log_entries =
        @ \o <<[ts |-> now, level |-> level, text |-> text, a |-> a, b |-> b,
                detail |-> detail]>>]

\* an except clause that records the state but neither end time nor message
MarkFailedOnly(j, now, e) ==
    Log([j EXCEPT !.state = "error"], now, "error", "Import failed", 0, 0, e)

\* the except clause of action_start
HandleException(j, now, e) ==
    Log([j EXCEPT !.state = "error", !.end_date = now, !.error_message = e],
        now, "error", "Import failed", 0, 0, e)

\* a success path that logs the end of the run and writes no state
CompleteUnmarked(j, now) ==
    Log(j, now, "info", "Import completed successfully",
        j.imported_records, j.failed_records, <<>>)

\* the success path of action_start after _run_import returned
Complete(j, now) ==
    LET d == [j EXCEPT !.state = "done", !.end_date = now]
    IN  Log(d, now, "info", "Import completed successfully",
            d.imported_records, d.failed_records, <<>>)

ConnectionFailed == <<"Failed to connect using pymssql">>
QueryFailed == <<"Query failed">>

\* how an exchange with the source store ends: served, or get_connection
\* raises, or cursor.execute raises
IoOutcomes == {"ok", "connection", "query"}
IoError(io) == IF io = "connection" THEN ConnectionFailed ELSE QueryFailed
WriteFailed == <<"Target rejected the batch">>
InvalidState == <<"Job must be in draft state to start">>
NotDone == <<"Can only verify completed import jobs">>
TransformError(target_field) == <<"Transform error for field", target_field>>

TargetModes == {"create", "update", "create_update"}

\* the rows a table may hold
RowSet == {[id |-> PyInt(2), qty |-> PyStr(<<" ", "7">>)],
           [id |-> PyInt(1), qty |-> PyStr(<<"a">>)]}

RECURSIVE Tables(_)
Tables(n) == IF n = 0 THEN {<<>>}
             ELSE Tables(n - 1) \cup {Append(t, r) : t \in Tables(n - 1), r \in RowSet}

\* the field mapping lists a descriptor may hold
GoodMappings == <<FieldMapping("id", "legacy_id", "int"), FieldMapping("qty", "x_qty", "int")>>
MappingTexts == {Json(GoodMappings), Json(<<>>)}

\* no value has been put to the normalisers
NoProbe == [value |-> None, transform |-> "direct", rounds |-> 0,
            source |-> <<>>, target |-> <<>>, source_again |-> <<>>,
            target_again |-> <<>>]

Init ==
    /\ job \in {NewJob(v) : v \in BOOLEAN}
    /\ mapping \in [field_mappings : MappingTexts, batch_size : 1..MaxBatch,
                    skip_errors : BOOLEAN, target_mode : TargetModes,
                    source_filter : {NoFilter, IdFilter}, target_model : Models]
    /\ source \in Tables(MaxRows)
    /\ target = <<>>
    /\ pc = "idle"
    /\ field_mappings = <<>>
    /\ cursor = [result |-> <<>>, pos |-> 0]
    /\ rows = <<>>
    /\ batch_data = <<>>
    /\ processed_count = 0
    /\ batches = <<>>
    /\ raised = NoException
    /\ clock = 0
    /\ manual_verifies = 0
    /\ validated = mapping
    /\ starts = [checked |-> 0, entered |-> 0, refused |-> 0]
    /\ committed = [job |-> job, target |-> target]
    /\ probe = NoProbe
    /\ original = <<>>
    /\ connections = 0

Locals == <<field_mappings, cursor, rows, batch_data, processed_count>>
Stores == <<mapping, source, target>>

(***************************************************************************)
(* action_start, lines 84-98: the state check and the reset                *)
(***************************************************************************)
\* a check that lets a failed job start again
start_check_unless_failed(j) ==
    IF j.state \notin {"draft", "error"} THEN InvalidState ELSE NoException

\* lines 88-89: the UserError raised to the caller, if any
start_check(j) == IF j.state # "draft" THEN InvalidState ELSE NoException

\* lines 91-98: the reset and the first line of the log
Reset(j, now) ==
    Log([j EXCEPT !.state = "running", !.start_date = now,
                  !.log_entries = <<>>, !.imported_records = 0,
                  !.failed_records = 0,
                  !.error_message = NoException],
        now, "info", "Starting import job", 0, 0, <<>>)

action_start ==
    /\ IF start_check(job) # NoException
       THEN UNCHANGED <<job, pc, clock, raised>>
       ELSE /\ pc = "idle"
            /\ clock' = clock + 1
            /\ job' = Reset(job, clock')
            /\ raised' = NoException
            /\ pc' = "validate"
    /\ starts' = IF start_check(job) # NoException THEN starts
                 ELSE [starts EXCEPT !.entered = @ + 1]
    /\ UNCHANGED <<Stores, Locals, batches, manual_verifies, validated, committed>>
    /\ UNCHANGED <<probe, original, connections>>

\* a step of the runner that ends with the exception e leaving _run_import
Abort(j, e) ==
    /\ job' = HandleException(j, clock', e)
    /\ raised' = e
    /\ pc' = "idle"

(***************************************************************************)
(* _run_import, lines 123-134: validate the descriptor, load the mappings  *)
(***************************************************************************)
run_validate ==
    /\ pc = "validate"
    /\ clock' = clock + 1
    /\ IF validate_mapping(mapping) # NoException
       THEN /\ Abort(job, validate_mapping(mapping))
            /\ UNCHANGED field_mappings
       ELSE IF LoadMappings(mapping.field_mappings) = <<>>
       THEN /\ Abort(job, <<"No field mappings defined">>)
            /\ UNCHANGED field_mappings
       ELSE /\ field_mappings' = LoadMappings(mapping.field_mappings)
            /\ job' = Log(job, clock', "info", "Counting source records...", 0, 0, <<>>)
            /\ raised' = NoException
            /\ pc' = "count"
    /\ validated' = mapping
    /\ UNCHANGED <<Stores, cursor, rows, batch_data, processed_count, batches,
                   manual_verifies, starts, committed>>
    /\ UNCHANGED <<probe, original, connections>>

(***************************************************************************)
(* _run_import, lines 136-145: count the source records                    *)
(***************************************************************************)
run_count ==
    /\ pc = "count"
    /\ clock' = clock + 1
    /\ \E io \in IoOutcomes :
         IF io # "ok"
         THEN Abort(job, IoError(io))
         ELSE /\ job' = Log([job EXCEPT !.total_records = count_query(source)],
                            clock', "info", "Found records to import",
                            count_query(source), 0, <<>>)
              /\ raised' = NoException
              /\ pc' = "open"
    /\ UNCHANGED <<Stores, Locals, batches, manual_verifies, validated, starts, committed>>
    /\ UNCHANGED <<probe, original, connections>>

(***************************************************************************)
(* _run_import, lines 148-161: open the stream over the mapped fields      *)
(***************************************************************************)
\* lines 148-203, the with block around the stream and the loop: its
\* connection is closed when control leaves the block, next being where the
\* runner stands after the step
WithExit(open, next) == IF next \in {"fetch", "write"} THEN open ELSE open - 1

run_open ==
    /\ pc = "open"
    /\ clock' = clock + 1
    /\ \E io \in IoOutcomes :
         IF io # "ok"
         THEN Abort(job, IoError(io)) /\ UNCHANGED <<cursor, processed_count>>
         ELSE /\ cursor' = [result |-> select_query(source, field_mappings,
                                                    mapping.source_filter),
                            pos |-> 0]
              /\ processed_count' = 0
              /\ raised' = NoException
              /\ pc' = "fetch"
              /\ UNCHANGED job
    /\ UNCHANGED <<Stores, field_mappings, rows, batch_data, batches, manual_verifies, validated, starts, committed>>
    /\ connections' = WithExit(connections + 1, pc')
    /\ UNCHANGED <<probe, original>>

(***************************************************************************)
(* _run_import, lines 162-179: fetch one batch and prepare its rows        *)
(***************************************************************************)
\* an error policy that aborts whatever skip_errors says
AlwaysAbort(m) == TRUE

\* an error policy that never aborts
NeverAbort(m) == FALSE

\* lines 178 and 198: does a failure abort the run?
AbortOnFailure(m) == ~m.skip_errors

\* lines 168-179, the loop over the rows of one batch.  acc carries the job
\* record, batch_data, processed_count, the rows tried and failed so far and
\* the exception that ended the loop, if any
RECURSIVE PrepareRows(_, _, _, _, _, _)
\* lines 174-179: the row is counted as failed and the failure logged
RowFailure(acc, now, target_field) ==
    [acc EXCEPT !.job = Log([@ EXCEPT !.failed_records = @ + 1], now,
                            "warning", "Failed to prepare record",
                            acc.processed_count, 0, TransformError(target_field)),
                !.attempted = @ + 1,
                !.failed = @ + 1]

\* line 177-178: re-raise, or go on with the next row
AfterFailure(fetched, fms, m, now, k, failed, target_field) ==
    IF AbortOnFailure(m)
    THEN [failed EXCEPT !.exc = TransformError(target_field)]
    ELSE PrepareRows(fetched, fms, m, now, k + 1, failed)

\* lines 169-179 for one row, r being what _prepare_record_data gave
PrepareRow(fetched, fms, m, now, k, acc, r) ==
    IF r.ok
    THEN PrepareRows(fetched, fms, m, now, k + 1,
                     [acc EXCEPT !.batch_data = Append(@, r.data),
                                 !.processed_count = @ + 1,
                                 !.attempted = @ + 1])
    ELSE AfterFailure(fetched, fms, m, now, k, RowFailure(acc, now, r.field), r.field)

PrepareRows(fetched, fms, m, now, k, acc) ==
    IF k > Len(fetched) THEN acc
    ELSE PrepareRow(fetched, fms, m, now, k, acc,
                    prepare_record_data(fetched[k], fms))

\* a run that goes straight to its end, verification wanted or not
SkipVerification(j) == "finish"

\* lines 205-207: what follows the loop
AfterLoop(j) == IF j.verification_enabled THEN "verify" ELSE "finish"

Batch(fetched, r, outcome) ==
    [rows |-> fetched, prepared |-> Len(r.batch_data), failed |-> r.failed,
     attempted |-> r.attempted, outcome |-> outcome]

\* the state of the loop before the first row of a batch
BatchStart(j, count) ==
    [job |-> j, batch_data |-> <<>>, processed_count |-> count,
     attempted |-> 0, failed |-> 0, exc |-> NoException]

\* lines 167-179 done on the rows fetched, r being where the row loop ended
Fetched(fetched, r) ==
    /\ cursor' = [cursor EXCEPT !.pos = @ + Len(fetched)]
    /\ rows' = fetched
    /\ batch_data' = r.batch_data
    /\ processed_count' = r.processed_count
    /\ IF r.exc # NoException
       THEN /\ Abort(r.job, r.exc)
            /\ batches' = Append(batches, Batch(fetched, r, "aborted"))
       ELSE /\ job' = r.job
            /\ raised' = NoException
            /\ pc' = "write"
            /\ batches' = Append(batches, Batch(fetched, r, "pending"))

\* lines 163-165: the stream is exhausted, or there is a batch to do
FetchMany(fetched) ==
    IF fetched = <<>>
    THEN /\ pc' = AfterLoop(job)
         /\ rows' = fetched
         /\ raised' = NoException
         /\ UNCHANGED <<job, cursor, batch_data, processed_count, batches>>
    ELSE Fetched(fetched, PrepareRows(fetched, field_mappings, mapping, clock', 1,
                                      BatchStart(job, processed_count)))

run_fetch ==
    /\ pc = "fetch"
    /\ clock' = clock + 1
    /\ FetchMany(fetchmany(cursor.result, cursor.pos, mapping.batch_size))
    /\ UNCHANGED <<Stores, field_mappings, manual_verifies, validated, starts, committed>>
    /\ connections' = WithExit(connections, pc')
    /\ UNCHANGED <<probe, original>>

(***************************************************************************)
(* _run_import, lines 181-203: hand the batch to the target, commit, log   *)
(***************************************************************************)
\* env[target_model].create(batch_data): the records as stored, ids assigned
Created(records, data) ==
    [k \in 1..Len(data) |-> [data[k] EXCEPT !["id"] = PyInt(Len(records) + k)]]

\* a batch created and not counted
Uncounted(j, data) == j

\* line 186
Imported(j, data) == [j EXCEPT !.imported_records = @ + Len(data)]

\* lines 195-196
WriteFailure(j, data, now, e) ==
    Log([j EXCEPT !.failed_records = @ + Len(data)], now, "warning",
        "Failed to import batch", 0, 0, e)

\* lines 201-203: env.cr.commit() and the progress line
Commit(j, now) ==
    Log(j, now, "info", "Processed records",
        j.imported_records + j.failed_records, j.total_records, <<>>)

SetOutcome(outcome) == [batches EXCEPT ![Len(batches)].outcome = outcome]

\* the batch is over and the loop goes round
Continue(j, records, outcome) ==
    /\ committed' = [job |-> j, target |-> records]
    /\ job' = Commit(j, clock')
    /\ raised' = NoException
    /\ pc' = "fetch"
    /\ batches' = SetOutcome(outcome)

run_write ==
    /\ pc = "write"
    /\ clock' = clock + 1
    /\ IF batch_data = <<>>
       THEN Continue(job, target, "empty") /\ UNCHANGED target
       ELSE IF mapping.target_mode = "create"
       THEN \E accepted \in BOOLEAN :
              IF accepted
              THEN /\ target' = target \o Created(target, batch_data)
                   /\ Continue(Imported(job, batch_data), target', "created")
              ELSE /\ UNCHANGED target
                   /\ IF AbortOnFailure(mapping)
                      THEN /\ Abort(WriteFailure(job, batch_data, clock', WriteFailed),
                                    WriteFailed)
                           /\ batches' = SetOutcome("rejected")
                           /\ UNCHANGED committed
                      ELSE Continue(WriteFailure(job, batch_data, clock', WriteFailed),
                                    target, "rejected")
       ELSE \* _update_records and _create_or_update_records: pass
            Continue(job, target, "passed") /\ UNCHANGED target
    /\ UNCHANGED <<mapping, source, Locals, manual_verifies, validated, starts>>
    /\ connections' = WithExit(connections, pc')
    /\ UNCHANGED <<probe, original>>

(***************************************************************************)
(* _verify_imported_data, lines 209-279                                    *)
(***************************************************************************)
\* line 211
VerifyBegin(j) == [j EXCEPT !.verification_status = "running"]

\* the except clause, lines 274-279
VerificationError(j, now, e) ==
    Log([j EXCEPT !.verification_status = "failed",
                  !.verification_details =
                      <<Mismatch("Verification error", None, 0, e, <<>>)>>],
        now, "error", "Verification error", 0, 0, e)

\* lines 262-272
VerifyResult(j, now, mismatches, total_verified) ==
    LET w == [j EXCEPT !.checksum_mismatches = Len(mismatches),
                       !.verification_status =
                           IF mismatches # <<>> THEN "failed" ELSE "passed",
                       !.verification_details =
                           IF mismatches # <<>> THEN mismatches
                           ELSE <<Mismatch("All records verified successfully", None,
                                           total_verified, <<>>, <<>>)>>]
    IN  IF mismatches # <<>>
        THEN Log(w, now, "warning", "Verification failed", Len(mismatches), 0, <<>>)
        ELSE Log(w, now, "info", "Verification passed", total_verified, 0, <<>>)

\* lines 232-272: both sides were read; the counts are logged, the two
\* dicts compared and the result written
VerifyCompare(j, now, source_data, target_data, total_verified) ==
    VerifyResult(Log(Log(j, now, "info", "Source records count", total_verified, 0, <<>>),
                     now, "info", "Target records count", Len(target_data), 0, <<>>),
                 now, mismatches_of(source_data, target_data), total_verified)

\* lines 229-230: the log lines of the two reads, in the order written
VerifyRead(j, now, records, source_data, target_data) ==
    VerifyCompare(
        Log(Log(j, now, "info", "Retrieved source records for verification",
                Len(source_data), 0, <<>>),
            now, "info", "Found target records to verify",
            Len(SearchLegacy(records)), 0, <<>>),
        now, source_data, target_data, Len(source_data))

\* line 315: the query is logged once the connection is there
QueryLogged(j, now) == Log(j, now, "info", "Source verification query", 0, 0, <<>>)

\* lines 227-279 with the mappings loaded
VerifyMapped(j, m, table, records, now, io, fms) ==
    IF io = "connection" THEN VerificationError(j, now, ConnectionFailed)
    ELSE IF io = "query"
    THEN VerificationError(Log(QueryLogged(j, now), now, "error",
                               "Source data query failed", 0, 0, QueryFailed),
                           now, <<"Failed to get source data">> \o QueryFailed)
    ELSE VerifyRead(QueryLogged(j, now), now, records,
                    get_source_mapped_data(table, fms, m.source_filter),
                    get_target_mapped_data(records, fms))

\* lines 216-222
NoMappings(j, now) ==
    [Log(j, now, "warning", "No field mappings defined - skipping verification",
         0, 0, <<>>)
       EXCEPT !.verification_status = "failed",
              !.verification_details =
                  <<Mismatch("No field mappings configured for verification",
                             None, 0, <<>>, <<>>)>>]

\* lines 213-279: [job, exc], exc being the exception that leaves the method
VerifyBody(j, m, table, records, now, io) ==
    IF m.field_mappings.text = "bad"
    THEN [job |-> j, exc |-> <<"JSONDecodeError">>]
    ELSE IF LoadMappings(m.field_mappings) = <<>>
    THEN [job |-> NoMappings(j, now), exc |-> NoException]
    ELSE [job |-> VerifyMapped(j, m, table, records, now, io,
                               LoadMappings(m.field_mappings)),
          exc |-> NoException]

\* the verification pass is over: v = [job, exc]
Verified(v) ==
    IF v.exc # NoException
    THEN Abort(v.job, v.exc)
    ELSE /\ job' = v.job
         /\ raised' = NoException
         /\ pc' = "finish"

\* _run_import, lines 205-207, and the first write of _verify_imported_data
run_verify ==
    /\ pc = "verify"
    /\ clock' = clock + 1
    /\ job' = VerifyBegin(Log(job, clock', "info", "Starting data verification ...",
                              0, 0, <<>>))
    /\ raised' = NoException
    /\ pc' = "verifying"
    /\ UNCHANGED <<Stores, Locals, batches, manual_verifies, validated, starts, committed>>
    /\ UNCHANGED <<probe, original, connections>>

run_verifying ==
    /\ pc = "verifying"
    /\ clock' = clock + 1
    /\ \E io \in IoOutcomes :
         Verified(VerifyBody(job, mapping, source, target, clock', io))
    /\ UNCHANGED <<Stores, Locals, batches, manual_verifies, validated, starts, committed>>
    /\ UNCHANGED <<probe, original, connections>>

(***************************************************************************)
(* action_start, lines 104-109: the run returned                           *)
(***************************************************************************)
run_finish ==
    /\ pc = "finish"
    /\ clock' = clock + 1
    /\ job' = Complete(job, clock')
    /\ raised' = NoException
    /\ pc' = "idle"
    /\ UNCHANGED <<Stores, Locals, batches, manual_verifies, validated, starts, committed>>
    /\ UNCHANGED <<probe, original, connections>>

(***************************************************************************)
(* action_cancel, lines 662-670                                            *)
(***************************************************************************)
\* a cancel that also takes a job not yet started
CancelUnlessOver(j, now) ==
    IF j.state \in {"running", "draft"}
    THEN Log([j EXCEPT !.state = "cancelled", !.end_date = now],
             now, "warning", "Job cancelled by user", 0, 0, <<>>)
    ELSE j

Cancel(j, now) ==
    IF j.state = "running"
    THEN Log([j EXCEPT !.state = "cancelled", !.end_date = now],
             now, "warning", "Job cancelled by user", 0, 0, <<>>)
    ELSE j

action_cancel ==
    /\ clock' = IF job.state = "running" THEN clock + 1 ELSE clock
    /\ job' = Cancel(job, clock')
    /\ UNCHANGED <<Stores, pc, Locals, batches, raised, manual_verifies, validated, starts, committed>>
    /\ UNCHANGED <<probe, original, connections>>

(***************************************************************************)
(* action_verify_data, lines 483-499                                       *)
(***************************************************************************)
\* lines 487-488: the UserError raised to the caller, if any
verify_check(j) == IF j.state # "done" THEN NotDone ELSE NoException

action_verify_data ==
    /\ IF verify_check(job) # NoException
       THEN UNCHANGED <<job, clock, manual_verifies>>
       ELSE /\ manual_verifies < MaxManualVerify
            /\ manual_verifies' = manual_verifies + 1
            /\ clock' = clock + 1
            /\ \E io \in IoOutcomes :
                 job' = VerifyBody(
                            VerifyBegin(Log(job, clock', "info",
                                            "Manual verification triggered", 0, 0, <<>>)),
                            mapping, source, target, clock', io).job
    /\ UNCHANGED <<Stores, pc, Locals, batches, raised, validated, starts, committed>>
    /\ UNCHANGED <<probe, original, connections>>

Next ==
    \/ action_start
    \/ run_validate
    \/ run_count
    \/ run_open
    \/ run_fetch
    \/ run_write
    \/ run_verify
    \/ run_verifying
    \/ run_finish
    \/ action_cancel

Spec == Init /\ [][Next]_vars

\* the job with its "Verify Data" button in use as well
NextManual ==
    \/ Next
    \/ action_verify_data

SpecManual == Init /\ [][NextManual]_vars

(***************************************************************************)
(* Validation alone: descriptors of every shape, started and validated     *)
(***************************************************************************)
\* the entries a mappings list may hold: objects with or without each key,
\* with known and unknown target fields and transforms, and non-objects
Entries ==
    {FieldMapping(sf, tf, tr) : sf \in {"id", Absent},
                                tf \in {"legacy_id", "nosuch", Absent},
                                tr \in {"int", "upper", Absent}}
      \cup {Scalar}

RECURSIVE EntryLists(_)
EntryLists(n) ==
    IF n = 0 THEN {<<>>}
    ELSE EntryLists(n - 1) \cup {Append(es, e) : es \in EntryLists(n - 1), e \in Entries}

DescriptorTexts == {NoText, BadJson} \cup {Json(es) : es \in EntryLists(MaxEntries)}

InitValidate ==
    /\ job = NewJob(FALSE)
    /\ mapping \in [field_mappings : DescriptorTexts, batch_size : {1},
                    skip_errors : {FALSE}, target_mode : {"create"},
                    source_filter : {NoFilter},
                    target_model : Models \cup {"no.such.model"}]
    /\ source = <<>>
    /\ target = <<>>
    /\ pc = "idle"
    /\ field_mappings = <<>>
    /\ cursor = [result |-> <<>>, pos |-> 0]
    /\ rows = <<>>
    /\ batch_data = <<>>
    /\ processed_count = 0
    /\ batches = <<>>
    /\ raised = NoException
    /\ clock = 0
    /\ manual_verifies = 0
    /\ validated = mapping
    /\ starts = [checked |-> 0, entered |-> 0, refused |-> 0]
    /\ committed = [job |-> job, target |-> target]
    /\ probe = NoProbe
    /\ original = <<>>
    /\ connections = 0

NextValidate ==
    \/ action_start
    \/ run_validate

SpecValidate == InitValidate /\ [][NextValidate]_vars

(***************************************************************************)
(* write() on dat.sql.import.mapping while a job of the descriptor runs    *)
(***************************************************************************)
\* the descriptors one write() on one field of m can leave
Edits(m) ==
    {[m EXCEPT !.batch_size = b] : b \in 1..MaxBatch}
        \cup {[m EXCEPT !.skip_errors = ~@]}
        \cup {[m EXCEPT !.target_mode = t] : t \in TargetModes}
        \cup {[m EXCEPT !.source_filter = f] : f \in {NoFilter, IdFilter}}
        \cup {[m EXCEPT !.field_mappings = t] : t \in {Json(<<GoodMappings[1]>>), BadJson}}

\* one edit per run, made once the run has validated the descriptor
edit_mapping ==
    /\ pc \notin {"idle", "validate"}
    /\ mapping = validated
    /\ \E m \in Edits(mapping) \ {mapping} : mapping' = m
    /\ UNCHANGED <<job, source, target, pc, Locals, batches, raised, clock,
                   manual_verifies, validated, starts, committed>>
    /\ UNCHANGED <<probe, original, connections>>

InitEdit ==
    /\ Init
    /\ mapping.field_mappings = Json(GoodMappings)
    /\ Len(source) = MaxRows

NextEdit ==
    \/ action_start
    \/ run_validate
    \/ run_count
    \/ run_open
    \/ run_fetch
    \/ run_write
    \/ run_verify
    \/ run_verifying
    \/ run_finish
    \/ edit_mapping

SpecEdit == InitEdit /\ [][NextEdit]_vars

(***************************************************************************)
(* action_start called by several users at once: the state check of lines  *)
(* 88-89 and the reset of lines 91-98 are two steps, and nothing between   *)
(* them keeps another caller out                                           *)
(***************************************************************************)
\* lines 88-89 by one more caller: refused, or past the check
start_enter ==
    /\ starts.checked + starts.entered + starts.refused < MaxStarts
    /\ starts' = IF start_check(job) # NoException
                 THEN [starts EXCEPT !.refused = @ + 1]
                 ELSE [starts EXCEPT !.checked = @ + 1]
    /\ UNCHANGED <<job, Stores, pc, Locals, batches, raised, clock, manual_verifies,
                   validated, committed>>
    /\ UNCHANGED <<probe, original, connections>>

\* lines 91-100 by a caller past the check, while no other run is under way
start_reset ==
    /\ starts.checked > 0
    /\ pc = "idle"
    /\ clock' = clock + 1
    /\ job' = Reset(job, clock')
    /\ raised' = NoException
    /\ pc' = "validate"
    /\ starts' = [starts EXCEPT !.checked = @ - 1, !.entered = @ + 1]
    /\ UNCHANGED <<Stores, Locals, batches, manual_verifies, validated, committed>>
    /\ UNCHANGED <<probe, original, connections>>

InitRace ==
    /\ Init
    /\ mapping.field_mappings = Json(GoodMappings)
    /\ mapping.target_mode = "create"

NextRace ==
    \/ start_enter
    \/ start_reset
    \/ run_validate
    \/ run_count
    \/ run_open
    \/ run_fetch
    \/ run_write
    \/ run_verify
    \/ run_verifying
    \/ run_finish

SpecRace == InitRace /\ [][NextRace]_vars

(***************************************************************************)
(* A verification pass on a done job, whatever the target model holds      *)
(***************************************************************************)
\* the records the target model may hold, ids in creation order: imported by
\* this job or another, edited since, or never imported (no legacy_id)
RECURSIVE TargetRecords(_)
TargetRecords(n) ==
    IF n = 0 THEN {<<>>}
    ELSE TargetRecords(n - 1)
         \cup {Append(t, [EmptyData EXCEPT !["id"] = PyInt(n), !["legacy_id"] = l,
                                          !["x_qty"] = q]) :
                 t \in {u \in TargetRecords(n - 1) : Len(u) = n - 1},
                 l \in {PyInt(1), PyInt(2), False},
                 q \in {PyInt(7), PyInt(8), False}}

\* a row that shares its id with a row of RowSet and differs from it in qty
SameIdRow == [id |-> PyInt(1), qty |-> PyStr(<<" ", "7">>)]

\* the tables the verifier may read: rows of one id may differ
RECURSIVE VerifyTables(_)
VerifyTables(n) ==
    IF n = 0 THEN {<<>>}
    ELSE VerifyTables(n - 1)
         \cup {Append(t, r) : t \in VerifyTables(n - 1), r \in RowSet \cup {SameIdRow}}

InitVerify ==
    /\ job = [NewJob(TRUE) EXCEPT !.state = "done"]
    /\ mapping \in [field_mappings : {Json(GoodMappings)}, batch_size : {1},
                    skip_errors : {TRUE}, target_mode : {"create"},
                    source_filter : {NoFilter, IdFilter}, target_model : Models]
    /\ source \in VerifyTables(MaxRows)
    /\ target \in TargetRecords(MaxRecords)
    /\ pc = "idle"
    /\ field_mappings = <<>>
    /\ cursor = [result |-> <<>>, pos |-> 0]
    /\ rows = <<>>
    /\ batch_data = <<>>
    /\ processed_count = 0
    /\ batches = <<>>
    /\ raised = NoException
    /\ clock = 0
    /\ manual_verifies = 0
    /\ validated = mapping
    /\ starts = [checked |-> 0, entered |-> 1, refused |-> 0]
    /\ committed = [job |-> job, target |-> target]
    /\ probe = NoProbe
    /\ original = <<>>
    /\ connections = 0

SpecVerify == InitVerify /\ [][action_verify_data]_vars

(***************************************************************************)
(* A run that is left to itself: action_start is one call on one thread,   *)
(* so while the call is under way the thread takes its next step           *)
(***************************************************************************)
Runner ==
    \/ run_validate
    \/ run_count
    \/ run_open
    \/ run_fetch
    \/ run_write
    \/ run_verify
    \/ run_verifying
    \/ run_finish

NextLive ==
    \/ action_start
    \/ Runner

\* a step of the runner, told by what every such step does: the call is
\* under way and the clock advances
RunnerStep == pc # "idle" /\ clock' = clock + 1

SpecLive == Init /\ [][NextLive]_vars /\ WF_clock(RunnerStep)

(***************************************************************************)
(* The two normalisers put to a value, and to what they gave               *)
(***************************************************************************)
\* the values a source column or a target field may hold
Values ==
    {None, False, PyBool(TRUE), PyInt(0), PyInt(1), PyInt(-2),
     PyFloat(0), PyFloat(1500), PyFloat(2000), PyFloat(-250),
     PyStr(<<>>), PyStr(<<" ">>), PyStr(<<"0">>), PyStr(<<" ", "7">>), PyStr(<<"a">>),
     PyStr(<<"1", ".", "5">>), PyStr(<<"1", ".", "0">>), PyStr(NULL),
     PyDate(<<"2", "0", "2", "4", "-", "0", "1", "-", "0", "2">>),
     PyDateTime(<<"2", "0", "2", "4", "-", "0", "1", "-", "0", "2", " ",
                  "0", "3", ":", "0", "4", ":", "0", "5", ".",
                  "0", "0", "0", "0", "0", "0">>)}

InitNormalize ==
    /\ probe \in [value : Values, transform : valid_transforms, rounds : {0},
                  source : {<<>>}, target : {<<>>}, source_again : {<<>>},
                  target_again : {<<>>}]
    /\ job = NewJob(FALSE)
    /\ mapping = [field_mappings |-> Json(GoodMappings), batch_size |-> 1,
                  skip_errors |-> FALSE, target_mode |-> "create",
                  source_filter |-> NoFilter, target_model |-> "res.partner"]
    /\ source = <<>>
    /\ target = <<>>
    /\ pc = "idle"
    /\ field_mappings = <<>>
    /\ cursor = [result |-> <<>>, pos |-> 0]
    /\ rows = <<>>
    /\ batch_data = <<>>
    /\ processed_count = 0
    /\ batches = <<>>
    /\ raised = NoException
    /\ clock = 0
    /\ manual_verifies = 0
    /\ validated = mapping
    /\ starts = [checked |-> 0, entered |-> 0, refused |-> 0]
    /\ committed = [job |-> job, target |-> target]
    /\ original = <<>>
    /\ connections = 0

\* _normalize_value_for_comparison and _normalize_target_value on the value
normalize ==
    /\ probe.rounds = 0
    /\ probe' = [probe EXCEPT
                    !.rounds = 1,
                    !.source = normalize_value_for_comparison(probe.value, probe.transform),
                    !.target = normalize_target_value(probe.value, probe.transform)]
    /\ UNCHANGED <<job, Stores, pc, Locals, batches, raised, clock, manual_verifies,
                   validated, starts, committed, original, connections>>

\* the same two on the strings they returned
normalize_again ==
    /\ probe.rounds = 1
    /\ probe' = [probe EXCEPT
                    !.rounds = 2,
                    !.source_again =
                        normalize_value_for_comparison(PyStr(probe.source), probe.transform),
                    !.target_again =
                        normalize_target_value(PyStr(probe.target), probe.transform)]
    /\ UNCHANGED <<job, Stores, pc, Locals, batches, raised, clock, manual_verifies,
                   validated, starts, committed, original, connections>>

NextNormalize ==
    \/ normalize
    \/ normalize_again

SpecNormalize == InitNormalize /\ [][NextNormalize]_vars

(***************************************************************************)
(* action_retry, lines 672-693                                             *)
(***************************************************************************)
\* a copy that only goes back to draft
CopyAsDraft(j) == [j EXCEPT !.state = "draft"]

\* self.copy(default): every stored field of the job, the defaults on top
Copy(j) ==
    [j EXCEPT !.state = "draft", !.start_date = 0, !.end_date = 0,
              !.imported_records = 0, !.failed_records = 0, !.total_records = 0,
              !.log_entries = <<>>, !.error_message = NoException]

\* the copy becomes the job the model follows; the job it was made from is
\* kept aside.  Taken while no run is under way.
action_retry ==
    /\ pc = "idle"
    /\ Len(original) < MaxRetries
    /\ original' = Append(original, job)
    /\ job' = Copy(job)
    /\ committed' = [committed EXCEPT !.job = job']
    /\ UNCHANGED <<Stores, pc, Locals, batches, raised, clock, manual_verifies,
                   validated, starts, probe, connections>>

InitRetry ==
    /\ Init
    /\ mapping.field_mappings = Json(GoodMappings)
    /\ mapping.target_mode = "create"
    /\ mapping.source_filter = NoFilter
    /\ Len(source) < MaxRows

NextRetry ==
    \/ action_start
    \/ run_validate
    \/ run_count
    \/ run_open
    \/ run_fetch
    \/ run_write
    \/ run_verify
    \/ run_verifying
    \/ run_finish
    \/ action_retry

SpecRetry == InitRetry /\ [][NextRetry]_vars

(***************************************************************************)
(* SqlImportConnection.test_connection, lines 77-115                       *)
(***************************************************************************)
\* lines 81-89 and the except clause of lines 109-113: the connection is
\* closed on the path where the test query was answered, and only there
TestConnection(open, io) == IF io = "query" THEN open + 1 ELSE open

\* the Test Connection button, pressed at any time, MaxOpen bounding the
\* connections open at once
test_connection ==
    /\ connections < MaxOpen
    /\ \E io \in IoOutcomes : connections' = TestConnection(connections, io)
    /\ UNCHANGED <<job, Stores, pc, Locals, batches, raised, clock, manual_verifies,
                   validated, starts, committed, probe, original>>

NextConnect ==
    \/ Next
    \/ test_connection

SpecConnect == Init /\ [][NextConnect]_vars

TypeOK ==
    /\ job.state \in {"draft", "running", "done", "error", "cancelled"}
    /\ job.verification_status \in {"pending", "running", "passed", "failed"}
    /\ pc \in {"idle", "validate", "count", "open", "fetch", "write",
               "verify", "verifying", "finish"}

(***************************************************************************)
(* Properties                                                              *)
(***************************************************************************)
Counters(j) == <<j.total_records, j.imported_records, j.failed_records>>

\* C1: in every reachable state of the job, before, during and after a run,
\* 0 <= imported_records + failed_records <= total_records.
C1_CountsWithinTotal ==
    /\ 0 <= job.imported_records + job.failed_records
    /\ job.imported_records + job.failed_records <= job.total_records

\* a run in which records were imported and records failed, and every
\* counted source row is accounted for
C1_Witness ==
    /\ job.imported_records > 0
    /\ job.failed_records > 0
    /\ job.imported_records + job.failed_records = job.total_records

\* C2: action_start is accepted only from draft: in every other state it
\* raises the invalid-state error; no step takes a job that has left draft
\* back to draft or into running again, and no step resets the run fields of
\* a job that is not in draft, so a second start always fails.
C2_StartOnlyFromDraft ==
    /\ [](job.state # "draft" => start_check(job) = InvalidState)
    /\ [](job.state = "draft" => start_check(job) = NoException)
    /\ [][job.state # "draft" =>
            /\ job'.state # "draft"
            /\ (job'.state = "running" => job.state = "running")
            /\ job'.start_date = job.start_date
            /\ Len(job'.log_entries) >= Len(job.log_entries)]_vars

\* a job that was started, was cancelled while running, and refuses a start
C2_Witness ==
    /\ job.state = "cancelled"
    /\ job.start_date > 0
    /\ start_check(job) = InvalidState

\* C3: action_cancel takes effect only from running, where it sets the
\* state to cancelled and records the end time; on a job in draft, done,
\* error or cancelled it changes nothing.
C3_CancelOnlyFromRunning ==
    /\ [](job.state # "running" => Cancel(job, clock + 1) = job)
    /\ [](job.state = "running" =>
            /\ Cancel(job, clock + 1).state = "cancelled"
            /\ Cancel(job, clock + 1).end_date = clock + 1)
    /\ [][job'.state = "cancelled" /\ job.state # "cancelled" =>
            /\ job.state = "running"
            /\ job'.end_date = clock' /\ clock' > clock
            /\ Counters(job') = Counters(job)
            /\ SubSeq(job'.log_entries, 1, Len(job.log_entries)) = job.log_entries]_vars

\* a running job with a batch in hand was cancelled
C3_Witness ==
    /\ job.state = "cancelled"
    /\ job.end_date > job.start_date
    /\ pc = "write"

\* C4: done, error and cancelled are terminal: once the state is one of
\* them, no step of start, cancel, the runner or manual verification changes
\* it; a job cancelled while its runner is looping never becomes done.
C4_TerminalStatesFinal ==
    [][job.state \in {"done", "error", "cancelled"} => job'.state = job.state]_vars

\* the log lines left by action_cancel
CancelLines(j) ==
    {k \in 1..Len(j.log_entries) : j.log_entries[k].text = "Job cancelled by user"}

\* a job that was cancelled while its runner was looping and is now done
C4_Witness ==
    /\ job.state = "done"
    /\ CancelLines(job) # {}
    /\ job.imported_records > 0

\* C5: cancellation is checked at the top of the per-batch loop: once the
\* job is cancelled the loop fetches no further batch; only the batch already
\* fetched may still be written.
C5_NoBatchAfterCancel ==
    [][job.state = "cancelled" =>
          /\ Len(batches') = Len(batches)
          /\ cursor'.pos = cursor.pos]_vars

\* a cancelled job whose log shows two batches processed after the cancel,
\* one more than could have been in flight
C5_Witness ==
    \E c \in CancelLines(job) :
        Cardinality({k \in (c + 1)..Len(job.log_entries) :
                        job.log_entries[k].text = "Processed records"}) >= 2

\* the rows the run streams: the mapped columns of the rows the filter keeps
Stream == select_query(source, field_mappings, mapping.source_filter)

\* C6: the state becomes done only after the loop has exhausted the source
\* stream (the last fetch came back empty with the cursor at the end) and,
\* when verification is enabled, after the verification pass has finished:
\* verification_status is passed or failed at the moment the job becomes done.
C6_DoneAfterLoopAndVerification ==
    [][job'.state = "done" /\ job.state # "done" =>
          /\ cursor.result = Stream
          /\ cursor.pos = Len(Stream)
          /\ rows = <<>>
          /\ job'.end_date = clock'
          /\ (job.verification_enabled =>
                job'.verification_status \in {"passed", "failed"})
          /\ (~job.verification_enabled => job'.verification_status = "pending")]_vars

\* a job done after a verified run over a stream of several batches
C6_Witness ==
    /\ job.state = "done"
    /\ job.verification_enabled
    /\ job.verification_status = "passed"
    /\ Len(batches) >= 2
    /\ cursor.pos = Len(Stream)

LastLog(j) == j.log_entries[Len(j.log_entries)]

\* C7: an exception that escapes the import run leaves the job in state
\* error with an end time and an error message equal to the exception text,
\* the last line of the log being the error line that carries the text, and
\* it is raised to the caller of start; a run ends either so or done.
C7_ExceptionLeavesError ==
    /\ [](raised # NoException =>
            /\ job.state = "error"
            /\ job.end_date >= job.start_date /\ job.end_date > 0
            /\ job.error_message = raised
            /\ job.log_entries # <<>>
            /\ LastLog(job).level = "error"
            /\ LastLog(job).text = "Import failed"
            /\ LastLog(job).detail = raised
            /\ LastLog(job).ts = job.end_date
            /\ pc = "idle")
    /\ [][pc # "idle" /\ pc' = "idle" =>
            \/ raised' = NoException /\ job'.state = "done"
            \/ raised' # NoException /\ job'.state = "error" /\ job'.end_date = clock']_vars

\* a run whose second batch the target rejected, with skip_errors off
C7_Witness ==
    /\ raised = WriteFailed
    /\ job.state = "error"
    /\ Len(batches) = 2
    /\ job.imported_records > 0

\* the rows of the stream whose transform fails
FailingRows == {k \in 1..Len(Stream) : ~prepare_record_data(Stream[k], field_mappings).ok}

\* the records of the batches the target rejected
RECURSIVE RejectedRecords(_)
RejectedRecords(bs) ==
    IF bs = <<>> THEN 0
    ELSE (IF Head(bs).outcome = "rejected" THEN Head(bs).prepared ELSE 0)
           + RejectedRecords(Tail(bs))

\* the log lines that warn of a row that could not be prepared
PrepareWarnings(j, target_field) ==
    {k \in 1..Len(j.log_entries) :
        /\ j.log_entries[k].level = "warning"
        /\ j.log_entries[k].text = "Failed to prepare record"
        /\ j.log_entries[k].detail = TransformError(target_field)}

RunOver == pc = "idle" /\ job.state # "draft"

\* C8: with skip_errors on, no transform failure and no rejected batch
\* aborts the run: a run over N streamed rows of which k fail to transform,
\* if no other error ends it, ends done with failed_records = k plus the
\* records of the rejected batches, imported_records = N - failed_records in
\* create mode, and one warning naming the target field per failing row.
C8_SkipErrorsNeverAborts ==
    mapping.skip_errors =>
        /\ raised \notin {WriteFailed} \cup {TransformError(f) : f \in ModelFields}
        /\ (RunOver /\ raised = NoException =>
              /\ job.state = "done"
              /\ job.failed_records = Cardinality(FailingRows) + RejectedRecords(batches)
              /\ (mapping.target_mode = "create" =>
                    job.imported_records = Len(Stream) - job.failed_records)
              /\ \A k \in FailingRows :
                    PrepareWarnings(job, prepare_record_data(Stream[k], field_mappings).field) # {}
              /\ Cardinality(PrepareWarnings(job, "x_qty")) = Cardinality(FailingRows))

\* a finished run with skip_errors on in which a row failed to transform,
\* a batch was rejected and a batch was imported
C8_Witness ==
    /\ mapping.skip_errors
    /\ RunOver /\ job.state = "done"
    /\ Cardinality(FailingRows) = 1
    /\ RejectedRecords(batches) = 1
    /\ job.imported_records = 1
    /\ Len(Stream) = 3

\* the rows fetched before the last batch
RECURSIVE RowsBefore(_)
RowsBefore(bs) ==
    IF Len(bs) <= 1 THEN 0 ELSE Len(Head(bs).rows) + RowsBefore(Tail(bs))

\* C9: with skip_errors off the first transform failure or rejected batch
\* aborts the run: as soon as failed_records >= 1 the run is over in state
\* error with a non-empty error message, the failure is that of the last
\* batch fetched, every earlier batch was clean, no row after the failing one
\* was tried and nothing was written after it.
C9_FirstFailureAborts ==
    ~mapping.skip_errors /\ job.failed_records >= 1 =>
        /\ pc = "idle"
        /\ job.state = "error"
        /\ job.error_message # <<>>
        /\ raised \in {WriteFailed} \cup {TransformError(f) : f \in ModelFields}
        /\ batches # <<>>
        /\ \A k \in 1..(Len(batches) - 1) :
              batches[k].failed = 0 /\ batches[k].outcome \in {"created", "passed"}
        /\ LET last == batches[Len(batches)] IN
           \/ /\ raised = WriteFailed
              /\ last.outcome = "rejected" /\ last.failed = 0
              /\ job.failed_records = last.prepared
           \/ /\ raised # WriteFailed
              /\ last.outcome = "aborted" /\ last.failed = 1
              /\ job.failed_records = 1
              /\ FailingRows # {}
              /\ \A k \in FailingRows : RowsBefore(batches) + last.attempted <= k
        /\ Len(target) = job.imported_records
        /\ (mapping.target_mode = "create" =>
              job.imported_records = RowsBefore(batches))

\* a run with skip_errors off that stopped at a failing row in its second
\* batch, with rows of the stream left unread
C9_Witness ==
    /\ ~mapping.skip_errors
    /\ job.state = "error"
    /\ job.failed_records = 1
    /\ Len(batches) = 2
    /\ batches[2].outcome = "aborted"
    /\ cursor.pos < Len(Stream)

RECURSIVE BatchRows(_)
BatchRows(bs) == IF bs = <<>> THEN <<>> ELSE Head(bs).rows \o BatchRows(Tail(bs))

CeilDiv(n, d) == (n + d - 1) \div d

\* the run is over, no exception left it, and every row was transformed and
\* every batch created
CleanCreateRun ==
    /\ RunOver /\ raised = NoException
    /\ mapping.target_mode = "create"
    /\ FailingRows = {}
    /\ \A k \in 1..Len(batches) : batches[k].outcome = "created"

\* C10: a run in create mode over N streamed rows that all transform and
\* write cleanly ends done with imported_records = N and failed_records = 0
\* after ceil(N / batch_size) batches, each of batch_size rows but a possibly
\* shorter last one, the batches being the stream cut up in order and the
\* target holding one record per row in stream order.
C10_CleanRunBatches ==
    CleanCreateRun =>
        /\ job.state = "done"
        /\ job.imported_records = Len(Stream)
        /\ job.failed_records = 0
        /\ Len(batches) = CeilDiv(Len(Stream), mapping.batch_size)
        /\ \A k \in 1..(Len(batches) - 1) : Len(batches[k].rows) = mapping.batch_size
        /\ (batches # <<>> =>
              /\ Len(batches[Len(batches)].rows) >= 1
              /\ Len(batches[Len(batches)].rows) <= mapping.batch_size)
        /\ BatchRows(batches) = Stream
        /\ Len(target) = Len(Stream)
        /\ \A k \in 1..Len(target) :
              target[k] = [prepare_record_data(Stream[k], field_mappings).data
                             EXCEPT !["id"] = PyInt(k)]

\* three rows at batch size two: a full batch and a shorter last one
C10_Witness ==
    /\ CleanCreateRun
    /\ Len(Stream) = 3
    /\ mapping.batch_size = 2
    /\ Len(batches) = 2
    /\ Len(batches[2].rows) = 1

\* C11: a run in write mode update or create_update, for which nothing is
\* implemented, fails loudly: it never ends done with a batch of prepared
\* records handed to the writer and neither imported nor counted as failed.
C11_UpdateModesFailLoudly ==
    RunOver /\ job.state = "done" /\ mapping.target_mode # "create" =>
        \A k \in 1..Len(batches) :
            batches[k].prepared > 0 =>
                job.imported_records + job.failed_records >= batches[k].prepared

\* a finished update-mode run over three clean rows: done, nothing imported,
\* nothing failed, nothing in the target
C11_Witness ==
    /\ RunOver /\ job.state = "done"
    /\ mapping.target_mode \in {"update", "create_update"}
    /\ Len(Stream) = 3 /\ FailingRows = {}
    /\ job.imported_records = 0 /\ job.failed_records = 0
    /\ target = <<>>
    /\ raised = NoException

\* C12: an invalid mapping descriptor blocks the start: a job whose
\* descriptor fails validation is never put in running, and no source read
\* and no target write is made for it.
C12_InvalidMappingBlocksStart ==
    validate_mapping(mapping) # NoException =>
        /\ job.state # "running"
        /\ job.total_records = 0 /\ cursor.result = <<>> /\ batches = <<>>
        /\ target = <<>>

\* a job on a descriptor that fails validation was started, ran as far as
\* the validation and ended in error, its start recorded
C12_Witness ==
    /\ validate_mapping(mapping) # NoException
    /\ job.state = "error"
    /\ job.start_date > 0
    /\ raised = validate_mapping(mapping)
    /\ Len(job.log_entries) = 2
    /\ job.log_entries[1].text = "Starting import job"

\* does the entry carry the key?
Carries(e, key) == IsObject(e) /\ e[key] # Absent

\* the stored fields of the descriptor's target model: none if there is no
\* such model
Schema(m) == IF m.target_model \in Models THEN ModelFields ELSE {}

\* the descriptor is one the validation is to reject: its text is not
\* parseable, its list is empty, an entry lacks source_field or
\* target_field, a target_field is not in the target schema, or a transform
\* is none of the seven
Rejectable(m) ==
    \/ m.field_mappings.text # "json"
    \/ m.field_mappings.entries = <<>>
    \/ \E k \in 1..Len(m.field_mappings.entries) :
          LET e == m.field_mappings.entries[k] IN
          \/ ~Carries(e, "source_field")
          \/ ~Carries(e, "target_field")
          \/ e.target_field \notin Schema(m)
          \/ (e.transform # Absent /\
              e.transform \notin {"direct", "bool", "int", "float", "str", "date",
                                  "datetime"})

\* C13: validate_mapping rejects a descriptor exactly when its text is
\* unparseable, its list empty, an entry lacks source_field or target_field,
\* a target_field is absent from the target schema or a transform is outside
\* the seven; every other descriptor is accepted, and a started job gets
\* past its validation exactly for the accepted ones.
C13_ValidateRejectsExactly ==
    /\ (validate_mapping(mapping) # NoException) = Rejectable(mapping)
    /\ (pc = "count" => ~Rejectable(mapping))
    /\ (job.state = "error" => Rejectable(mapping) /\ raised = validate_mapping(mapping))

\* a started job stopped by its validation for the transform of the second
\* entry alone, the first entry being in order
C13_Witness ==
    /\ job.state = "error"
    /\ raised = <<"Invalid transform", "upper">>
    /\ Len(mapping.field_mappings.entries) = 2
    /\ ValidateEntries(<<mapping.field_mappings.entries[1]>>, 1) = NoException

\* the log lines that report a failure to connect to the source
ConnectionFailures(j) ==
    {k \in 1..Len(j.log_entries) : j.log_entries[k].detail = ConnectionFailed}

\* C14: an invalid mapping and a source connection failure abort the run
\* whatever skip_errors is: once a connection failure was raised in any
\* phase (count, stream, verification) the job does not become done, and
\* the run ends in error with the failure raised to the caller.
C14_ConnectionErrorAborts ==
    /\ (RunOver /\ validate_mapping(mapping) # NoException =>
          job.state = "error" /\ raised = validate_mapping(mapping))
    /\ (ConnectionFailures(job) # {} =>
          /\ job.state # "done"
          /\ (RunOver => job.state = "error" /\ raised = ConnectionFailed))

\* a run whose verification pass could not connect to the source: the job
\* is done, nothing was raised, the verification is marked failed
C14_Witness ==
    /\ job.state = "done"
    /\ raised = NoException
    /\ job.verification_status = "failed"
    /\ ConnectionFailures(job) # {}
    /\ job.imported_records > 0

\* C15: a job runs against the descriptor as it was validated at its start:
\* an edit of the descriptor made while the job runs changes neither the
\* batches the job fetches, nor whether a failure aborts the run, nor the
\* fields and rows the verification compares.
C15_RunsAgainstValidatedDescriptor ==
    /\ \A k \in 1..Len(batches) :
         /\ Len(batches[k].rows) <= validated.batch_size
         /\ (k < Len(batches) => Len(batches[k].rows) = validated.batch_size)
         /\ (batches[k].failed > 0 \/ batches[k].outcome = "rejected") =>
                (validated.skip_errors = (batches[k].outcome # "aborted" /\ raised # WriteFailed))
    /\ (pc = "finish" /\ job.verification_status \in {"passed", "failed"}) =>
           \E io \in IoOutcomes :
               job.verification_details =
                   VerifyBody(job, validated, source, target, clock, io).job.verification_details

\* C15 witness: the batch size was edited after the first batch of a run
\* that ended done, and the second batch has the edited size.
C15_Witness ==
    /\ RunOver /\ job.state = "done"
    /\ validated.batch_size = 1
    /\ mapping = [validated EXCEPT !.batch_size = 2]
    /\ Len(batches) = 2
    /\ Len(batches[1].rows) = 1
    /\ Len(batches[2].rows) = 2

\* C16: a job has at most one runner: of the action_start calls made on one
\* draft job, at most one passes the state check and executes the import
\* loop; every other call is refused with the invalid-state error.
C16_AtMostOneRunner == starts.checked + starts.entered <= 1

\* C16 witness: two calls passed the check while the job was draft, both ran
\* the loop to its end, and the one source row was created twice.
C16_Witness ==
    /\ RunOver /\ job.state = "done"
    /\ starts = [checked |-> 0, entered |-> 2, refused |-> 0]
    /\ Len(source) = 1
    /\ Len(target) = 2
    /\ job.imported_records = 1

\* C17: from the start of a run onward the job log is append-only: the step
\* that starts a run leaves the log holding the one line of the start, and
\* every other step leaves the log as it was or extends it, the log before the
\* step being a prefix of the log after it and every added line carrying the
\* time of the step, on the success, abort, cancel and verification paths.
C17_LogAppendOnly ==
    [][IF starts'.entered # starts.entered
       THEN /\ Len(job'.log_entries) = 1
            /\ job'.log_entries[1].ts = clock'
            /\ job'.log_entries[1].text = "Starting import job"
       ELSE /\ Len(job'.log_entries) >= Len(job.log_entries)
            /\ SubSeq(job'.log_entries, 1, Len(job.log_entries)) = job.log_entries
            /\ \A k \in (Len(job.log_entries) + 1)..Len(job'.log_entries) :
                   /\ job'.log_entries[k].ts = clock'
                   /\ clock' = clock + 1]_vars

\* C17 witness: a run that was cancelled while looping, went on to done and
\* was verified again by hand, the log holding the lines of all of it.
C17_Witness ==
    /\ job.state = "done"
    /\ manual_verifies = 1
    /\ job.log_entries[1].text = "Starting import job"
    /\ CancelLines(job) # {}
    /\ \E k \in 1..Len(job.log_entries) :
           /\ job.log_entries[k].text = "Import completed successfully"
           /\ k < Len(job.log_entries)
           /\ job.log_entries[k + 1].text = "Manual verification triggered"
    /\ \E k \in 1..Len(job.log_entries) : job.log_entries[k].level = "warning" /\ job.log_entries[k].text = "Failed to prepare record"

\* what the first c batches added to imported_records and to failed_records
RECURSIVE ImportedBy(_)
ImportedBy(c) ==
    IF c = 0 THEN 0
    ELSE ImportedBy(c - 1)
         + (IF batches[c].outcome = "created" THEN batches[c].prepared ELSE 0)

RECURSIVE FailedBy(_)
FailedBy(c) ==
    IF c = 0 THEN 0
    ELSE FailedBy(c - 1) + batches[c].failed
         + (IF batches[c].outcome = "rejected" THEN batches[c].prepared ELSE 0)

\* C18: progress is made durable after each batch together with the batch's
\* target writes: at every point of a run, whether it goes on, crashes or
\* aborts there, the committed imported_records is the number of records
\* committed to the target, and the committed counters are the totals of a
\* whole number of batches, all the batches fetched or all but the last.
C18_ProgressDurableWithWrites ==
    /\ committed.job.imported_records = Len(committed.target)
    /\ \E c \in {Len(batches), Len(batches) - 1} :
           /\ c >= 0
           /\ committed.job.imported_records = ImportedBy(c)
           /\ committed.job.failed_records = FailedBy(c)
    /\ (pc = "fetch" => committed.target = target /\ committed.job.imported_records = job.imported_records
                        /\ committed.job.failed_records = job.failed_records)

\* C18 witness: a run aborted in its second batch on a row that failed to
\* prepare; the first batch is committed, the failure of the second is not.
C18_Witness ==
    /\ RunOver /\ job.state = "error"
    /\ Len(batches) = 2
    /\ batches[1].outcome = "created"
    /\ batches[2].outcome = "aborted"
    /\ committed.job.imported_records = 1
    /\ Len(committed.target) = 1
    /\ committed.job.failed_records = 0
    /\ job.failed_records = 1

\* C19: a failure inside the verifier ends the verification failed with a
\* non-empty reason, never leaves it pending or running, is not raised to the
\* caller of start and leaves the job's state alone: a run that reached its
\* verification pass ends done, with the verification passed or failed.
C19_VerifierFailureContained ==
    /\ (job.verification_status = "running" => pc = "verifying")
    /\ (job.verification_status = "failed" => job.verification_details # <<>>)
    /\ (RunOver /\ job.verification_status # "pending" =>
            /\ job.state = "done"
            /\ raised = NoException
            /\ job.verification_status \in {"passed", "failed"})
    /\ (RunOver /\ job.state = "done" /\ job.verification_enabled =>
            job.verification_status # "pending")

\* C19 witness: the verification pass of a run that had created its records
\* raised while loading the descriptor; the run ended in error, the
\* verification still marked running.
C19_Witness ==
    /\ RunOver /\ job.state = "error"
    /\ raised = <<"JSONDecodeError">>
    /\ job.verification_status = "running"
    /\ job.imported_records = Len(source)
    /\ Len(target) = MaxRows

\* the source rows and the target records a verification pass is about, and
\* the mapped fields it compares
Visible == Where(source, mapping.source_filter)
Keyed == SearchLegacy(target)
Compared == LoadMappings(mapping.field_mappings)

\* source and target have the same row keys and, for every key, equal
\* normalised values in every mapped field
SameKeysAndValues ==
    /\ \A s \in 1..Len(Visible) : \E t \in 1..Len(Keyed) :
           PyEq(Visible[s][Compared[1].source_field], Keyed[t].legacy_id)
    /\ \A t \in 1..Len(Keyed) : \E s \in 1..Len(Visible) :
           PyEq(Visible[s][Compared[1].source_field], Keyed[t].legacy_id)
    /\ \A s \in 1..Len(Visible), t \in 1..Len(Keyed) :
           PyEq(Visible[s][Compared[1].source_field], Keyed[t].legacy_id) =>
               SourceRecordValues(Visible[s], Compared) = TargetRecordValues(Keyed[t], Compared)

\* the last pass read both sides and compared them
ComparedPass ==
    /\ job.verification_status \in {"passed", "failed"}
    /\ job.verification_details[1].kind # "Verification error"

\* C20: a verification pass that compared the two sides ends passed with no
\* mismatch counted exactly when source and target have the same row keys and
\* equal normalised values in every mapped field of every key, and ends
\* failed with at least one mismatch counted otherwise.
C20_PassedExactlyWhenEqual ==
    ComparedPass =>
        IF SameKeysAndValues
        THEN job.verification_status = "passed" /\ job.checksum_mismatches = 0
        ELSE job.verification_status = "failed" /\ job.checksum_mismatches > 0

\* C20 witness: the source has one row of key 1, the target two records of
\* key 1 that differ in a mapped field; the pass compared and ended passed.
C20_Witness ==
    /\ ComparedPass
    /\ job.verification_status = "passed"
    /\ job.checksum_mismatches = 0
    /\ Len(Visible) = 1
    /\ Len(Keyed) = 2
    /\ Keyed[1].legacy_id = Keyed[2].legacy_id
    /\ Keyed[1].x_qty # Keyed[2].x_qty
    /\ ~SameKeysAndValues

\* the entries of the verification report: none when the pass ended passed
Report(j) == IF j.verification_status = "failed" THEN j.verification_details ELSE <<>>

Reported(j, kind, key) ==
    \E k \in 1..Len(Report(j)) : Report(j)[k].kind = kind /\ PyEq(Report(j)[k].key, key)

\* C21: after a pass that compared the two sides the report has a
\* missing-in-target entry for every source key absent from the target, an
\* extra-in-target entry for every target key absent from the source and a
\* mismatch entry for every key whose values differ between the two sides;
\* the mismatch count is the number of entries of the report.
C21_ReportNamesEveryDifference ==
    ComparedPass =>
        /\ \A s \in 1..Len(Visible) :
               (\A t \in 1..Len(Keyed) :
                    ~PyEq(Visible[s][Compared[1].source_field], Keyed[t].legacy_id)) =>
                   Reported(job, "Missing record in target",
                            Visible[s][Compared[1].source_field])
        /\ \A t \in 1..Len(Keyed) :
               (\A s \in 1..Len(Visible) :
                    ~PyEq(Visible[s][Compared[1].source_field], Keyed[t].legacy_id)) =>
                   Reported(job, "Extra record in target", Keyed[t].legacy_id)
        /\ \A s \in 1..Len(Visible), t \in 1..Len(Keyed) :
               /\ PyEq(Visible[s][Compared[1].source_field], Keyed[t].legacy_id)
               /\ SourceRecordValues(Visible[s], Compared)
                      # TargetRecordValues(Keyed[t], Compared)
               => Reported(job, "Data mismatch for record", Keyed[t].legacy_id)
        /\ job.checksum_mismatches = Len(Report(job))

\* C21 witness: the source has a row of key 1 and a row of key 2, the target
\* two records of key 1 that differ in a mapped field; the report holds the
\* missing-in-target entry of key 2 and nothing about key 1.
C21_Witness ==
    /\ ComparedPass
    /\ job.verification_status = "failed"
    /\ job.checksum_mismatches = 1
    /\ Len(Visible) = 2
    /\ Len(Keyed) = 2
    /\ Keyed[1].legacy_id = PyInt(1)
    /\ Keyed[2].legacy_id = PyInt(1)
    /\ Keyed[1].x_qty # Keyed[2].x_qty
    /\ Reported(job, "Missing record in target", PyInt(2))
    /\ ~Reported(job, "Data mismatch for record", PyInt(1))

\* C22: normalisation is idempotent: for every transform kind and every
\* value, each normaliser put to the string it returned returns that string.
C22_NormalizeIdempotent ==
    probe.rounds = 2 =>
        /\ probe.source_again = probe.source
        /\ probe.target_again = probe.target

\* C22 witness: the integer 0 under the bool transform gave "0", and "0" put
\* to the normalisers again gave "1".
C22_Witness ==
    /\ probe.rounds = 2
    /\ probe.value = PyInt(0)
    /\ probe.transform = "bool"
    /\ probe.source = <<"0">>
    /\ probe.source_again = <<"1">>
    /\ probe.target = <<"0">>
    /\ probe.target_again = <<"1">>

\* C23: retry leaves the job it is called on as it was and creates a job on
\* the same mapping, in draft, with total, imported and failed records zero,
\* an empty log and no error message; that job passes the state check of
\* action_start.
C23_RetryMakesFreshDraft ==
    /\ [][original' # original =>
            /\ original' = Append(original, job)
            /\ mapping' = mapping
            /\ target' = target
            /\ job'.state = "draft"
            /\ job'.total_records = 0
            /\ job'.imported_records = 0
            /\ job'.failed_records = 0
            /\ job'.log_entries = <<>>
            /\ job'.error_message = NoException
            /\ job'.start_date = 0 /\ job'.end_date = 0
            /\ start_check(job') = NoException]_vars
    /\ [][\A k \in 1..Len(original) : original'[k] = original[k]]_vars

\* C23 witness: a job that ended in error after a failed row was retried,
\* and the new job was started and ran to done on the same mapping.
C23_Witness ==
    /\ Len(original) = 1
    /\ original[1].state = "error"
    /\ original[1].failed_records = 1
    /\ original[1].error_message # NoException
    /\ RunOver /\ job.state = "done"
    /\ job.imported_records > 0
    /\ starts.entered = 2

\* C24: every source connection opened in a phase is closed by the end of
\* the phase, on every path: the only connection open at any time is the one
\* of the stream while the import loop is under way.
C24_ConnectionsClosed ==
    connections = IF pc \in {"fetch", "write"} THEN 1 ELSE 0

\* C24 witness: a connection test whose query failed was followed by a run
\* that ended done; the connection of the test is still open.
C24_Witness ==
    /\ RunOver /\ job.state = "done"
    /\ job.imported_records > 0
    /\ connections = 1

\* C25: total_records is the count of the filtered source: once counted it
\* equals the number of rows the streaming query, which applies the filter,
\* yields, so that a run in create mode that ends done has imported_records
\* + failed_records = total_records, a progress of 100%.
C25_TotalIsFilteredCount ==
    /\ (job.state # "draft" /\ pc \notin {"validate", "count"} /\ job.total_records > 0 =>
            job.total_records = Len(Where(source, mapping.source_filter)))
    /\ (RunOver /\ job.state = "done" /\ mapping.target_mode = "create" =>
            job.imported_records + job.failed_records = job.total_records)

\* C25 witness: a filtered run over three rows, one of them outside the
\* filter, ended done with two rows imported and a total of three.
C25_Witness ==
    /\ RunOver /\ job.state = "done"
    /\ mapping.target_mode = "create"
    /\ mapping.source_filter = IdFilter
    /\ Len(source) = 3
    /\ Len(Where(source, IdFilter)) = 2
    /\ job.total_records = 3
    /\ job.imported_records = 2
    /\ job.failed_records = 0

\* C26: under the bool transform both normalisers give "1" for true and "0"
\* for false, and give the token NULL for no value but None.
C26_BoolFalseIsZero ==
    probe.rounds >= 1 /\ probe.transform = "bool" =>
        /\ (probe.value = PyBool(TRUE) =>
                probe.source = <<"1">> /\ probe.target = <<"1">>)
        /\ (probe.value = False =>
                probe.source = <<"0">> /\ probe.target = <<"0">>)
        /\ (probe.source = NULL \/ probe.target = NULL => probe.value = None)

\* C26 witness: false under the bool transform has been normalised, and both
\* normalisers returned the token NULL.
C26_Witness ==
    /\ probe.rounds >= 1
    /\ probe.transform = "bool"
    /\ probe.value = False
    /\ probe.source = NULL
    /\ probe.target = NULL

\* C27: for every transform kind and every value the source-side normaliser
\* and the target-side normaliser return the same string.
C27_NormalizersAgree ==
    probe.rounds >= 1 => probe.source = probe.target

\* C27 witness: the integer 0 under the direct transform has been normalised,
\* to NULL on the source side and to "0" on the target side.
C27_Witness ==
    /\ probe.rounds >= 1
    /\ probe.value = PyInt(0)
    /\ probe.transform = "direct"
    /\ probe.source = NULL
    /\ probe.target = <<"0">>

\* C28: a job in draft, and a job whose runs have verification disabled, has
\* verification status pending and no mismatch counted, also when retry made
\* it from a verified job; a job whose status is passed has a verification
\* pass that found no mismatch in its own log.
C28_PassedOnlyAfterOwnPass ==
    /\ (job.state = "draft" \/ ~job.verification_enabled =>
            job.verification_status = "pending" /\ job.checksum_mismatches = 0)
    /\ (job.verification_status = "passed" =>
            /\ job.checksum_mismatches = 0
            /\ \E k \in 1..Len(job.log_entries) :
                    job.log_entries[k].text = "Verification passed")

\* C28 witness: retry has made a draft job from a job whose verification
\* passed; no run of the new job has begun and its status is passed.
C28_Witness ==
    /\ Len(original) = 1
    /\ original[1].state = "done"
    /\ original[1].verification_status = "passed"
    /\ job.state = "draft"
    /\ job.log_entries = <<>>
    /\ job.verification_status = "passed"

\* C29: the verifier examines every source row: its source map has one entry
\* per row the source query returned, and where no two target records share a
\* key, every source row whose values differ from those of the target record
\* of its key is reported as a mismatch.
C29_EverySourceRowCompared ==
    ComparedPass =>
        /\ \A k \in 1..Len(job.log_entries) :
               job.log_entries[k].text = "Retrieved source records for verification" =>
                   job.log_entries[k].a = Len(Visible)
        /\ (\A t, u \in 1..Len(Keyed) :
                t # u => ~PyEq(Keyed[t].legacy_id, Keyed[u].legacy_id)) =>
               \A s \in 1..Len(Visible), t \in 1..Len(Keyed) :
                   /\ PyEq(Visible[s][Compared[1].source_field], Keyed[t].legacy_id)
                   /\ SourceRecordValues(Visible[s], Compared)
                          # TargetRecordValues(Keyed[t], Compared)
                   => Reported(job, "Data mismatch for record", Keyed[t].legacy_id)

\* C29 witness: the source has two rows of id 1 that differ in qty, the
\* target one record of key 1 that equals the later row; the pass read one
\* source record and ended passed.
C29_Witness ==
    /\ ComparedPass
    /\ Len(Visible) = 2
    /\ Visible[1].id = PyInt(1) /\ Visible[2].id = PyInt(1)
    /\ Visible[1].qty # Visible[2].qty
    /\ Len(Keyed) = 1
    /\ Keyed[1].legacy_id = PyInt(1)
    /\ \E k \in 1..Len(job.log_entries) :
           /\ job.log_entries[k].text = "Retrieved source records for verification"
           /\ job.log_entries[k].a = 1
    /\ job.verification_status = "passed"

\* C30: a started job that nobody cancels leaves running: it reaches done or
\* error; the import loop is left only with the stream exhausted or with an
\* exception raised, and no run ends done with source rows unread.
C30_RunTerminates ==
    /\ (job.state = "running" ~> job.state \in {"done", "error"})
    /\ [][pc = "fetch" /\ pc' \notin {"fetch", "write"} =>
              cursor'.pos = Len(cursor'.result) \/ raised' # NoException]_vars
    /\ [](RunOver /\ job.state = "done" =>
              /\ Len(cursor.result) = Len(Where(source, mapping.source_filter))
              /\ cursor.pos = Len(cursor.result))

\* C30 witness: a run over three rows in batches of two went round the loop
\* twice, the second batch short, and ended done with the stream read out.
C30_Witness ==
    /\ RunOver
    /\ job.state = "done"
    /\ mapping.batch_size = 2
    /\ Len(cursor.result) = 3
    /\ cursor.pos = 3
    /\ Len(batches) = 2
    /\ Len(batches[2].rows) = 1

====
